---- MODULE Spec2Model ----
(***************************************************************************)
(* A model of two packages of the CLI:                                     *)
(*   pkg/print       status lines, the JSON switch and the spinner         *)
(*   pkg/standalone  the version probes of the companion binaries          *)
(* A behaviour exercises one part of the program, chosen by the variable   *)
(* part in the initial state:                                              *)
(*   "reporters"   EnableJSONFormat and the five reporters                 *)
(*   "spinner"     one call of Spinner and the calls of the function it    *)
(*                 returns.  That closure owns msg, once and s; it shares  *)
(*                 with the rest of the program only logAsJSON and the     *)
(*                 sink, which EnableJSONFormat and a reporter called by   *)
(*                 other code drive while the closure is in use            *)
(*   "standalone"  the version probes, which share no state with pkg/print *)
(*                                                                         *)
(* A Go string is a sequence of pieces: a literal of the source is one     *)
(* piece, a byte of a binary's output is one piece.                        *)
(***************************************************************************)
EXTENDS Integers, Sequences, FiniteSets, TLC

(***************************************************************************)
(* Bounds of the model.                                                    *)
(***************************************************************************)
\* goroutines that call the spinner's completion function
NumProcs == 2
\* lines the sink holds before no new operation is started
MaxLines == 2
\* bytes a companion binary writes to its standard output
MaxOut == 2

Procs == 1..NumProcs

\* the formatted messages, fmt.Sprintf(fmtstr, a...)
Msgs == {"m1", "m2"}
\* the readings of time.Now().UTC(), as years
Clock == {2026}
\* the last year time.Time marshals to JSON: json.Marshal fails beyond it
MaxJSONYear == 9999
\* bufio.MaxScanTokenSize: the longest line a bufio.Scanner returns
MaxScanTokenSize == 65536

\* the bytes of a binary's output: a letter, a carriage return, a newline
OutChars == {"a", "\r", "\n"}
Outs == UNION {[1..n -> OutChars] : n \in 0..MaxOut}
\* what exec.Cmd.Output returns: the captured output and whether err != nil
\* (a binary that cannot be launched is out = <<>>, err = TRUE)
Outcomes == [out : Outs, err : BOOLEAN]
\* the version argument of GetBuildInfo
Versions == {"1.0.0"}

VARIABLES
    part,          \* the part of the program the behaviour exercises
    windows,       \* runtime.GOOS == windowsOS
    logAsJSON,     \* var logAsJSON bool
    sink,          \* the lines written to the io.Writer w, in order
    fn,            \* the function Spinner returned: "none" (not called), "guarded", "dummy"
    msg,           \* Spinner's msg
    s,             \* Spinner's s *spinner.Spinner: "nil", "active", "stopped"
    once,          \* Spinner's once sync.Once: [done, m], m the goroutine holding its mutex
    pc,            \* per goroutine: where it is in the completion function
    call,          \* per goroutine: the result it passed
    enableCalled,  \* history: EnableJSONFormat has been called
    winner,        \* history: the result of the call whose function once ran
    stops,         \* history: the calls of s.Stop()
    gitcommit,     \* var gitcommit string, injected by the build
    gitversion,    \* var gitversion string, injected by the build
    vfn,           \* the function of pkg/standalone in progress, "" for none
    vpc,           \* where it is: "idle", "exec" (inside Output), "ret"
    cmds,          \* the commands it has run, [bin, flag]
    results,       \* what Output returned for each finished command
    version,       \* GetBuildInfo's argument
    hung,          \* the running companion binary never exits
    vret           \* the string the function returns

printVars == <<windows, logAsJSON, sink, fn, msg, s, once, pc, call,
               enableCalled, winner, stops>>
versionVars == <<gitcommit, gitversion, vfn, vpc, cmds, results, version, hung, vret>>
vars == <<part, printVars, versionVars>>

(***************************************************************************)
(* pkg/print: the lines.                                                   *)
(* A line is [fmt, time, tag, msg]: fmt "json" carries the time and the    *)
(* status in tag; fmt "icon" carries the icon in tag; fmt "plain" is the   *)
(* message alone; fmt "frame" is a frame of the animation.  In the sink a  *)
(* line also records who wrote it: by, the function, and spin, whether it  *)
(* was written for the spinner.                                            *)
(***************************************************************************)
Line(f, t, tag, m) == [fmt |-> f, time |-> t, tag |-> tag, msg |-> m]

\* fmt.Fprintf(w, "%s\n", m)
Plain(m) == Line("plain", 0, "", m)

\* json.Marshal(&l): time.Time refuses years outside [0, 9999]
MarshalFails(l) == l.time < 0 \/ l.time > MaxJSONYear

logJSON(status, message, t) ==
    LET l == [time |-> t, status |-> status, msg |-> message]
    IN  IF MarshalFails(l)
        THEN Plain(message)
        ELSE Line("json", l.time, l.status, l.msg)

SuccessStatusEvent(m, t) ==
    IF logAsJSON THEN logJSON("success", m, t)
    ELSE IF windows THEN Plain(m)
    ELSE Line("icon", 0, "check-mark", m)

FailureStatusEvent(m, t) ==
    IF logAsJSON THEN logJSON("failure", m, t)
    ELSE IF windows THEN Plain(m)
    ELSE Line("icon", 0, "cross-mark", m)

\* a copy of FailureStatusEvent whose status was not changed
WarningStatusEventCopied(m, t) ==
    IF logAsJSON THEN logJSON("failure", m, t)
    ELSE IF windows THEN Plain(m)
    ELSE Line("icon", 0, "warning-sign", m)

WarningStatusEvent(m, t) ==
    IF logAsJSON THEN logJSON("warning", m, t)
    ELSE IF windows THEN Plain(m)
    ELSE Line("icon", 0, "warning-sign", m)

PendingStatusEvent(m, t) ==
    IF logAsJSON THEN logJSON("pending", m, t)
    ELSE IF windows THEN Plain(m)
    ELSE Line("icon", 0, "hourglass", m)

InfoStatusEvent(m, t) ==
    IF logAsJSON THEN logJSON("info", m, t)
    ELSE IF windows THEN Plain(m)
    ELSE Line("icon", 0, "information-sign", m)

Reporters == {"SuccessStatusEvent", "FailureStatusEvent", "WarningStatusEvent",
              "PendingStatusEvent", "InfoStatusEvent"}

\* the line reporter f writes for message m at time t
Report(f, m, t) ==
    CASE f = "SuccessStatusEvent" -> SuccessStatusEvent(m, t)
      [] f = "FailureStatusEvent" -> FailureStatusEvent(m, t)
      [] f = "WarningStatusEvent" -> WarningStatusEvent(m, t)
      [] f = "PendingStatusEvent" -> PendingStatusEvent(m, t)
      [] f = "InfoStatusEvent"    -> InfoStatusEvent(m, t)

\* a line as the sink holds it
Written(l, by, spin) ==
    [fmt |-> l.fmt, time |-> l.time, tag |-> l.tag, msg |-> l.msg,
     by |-> by, spin |-> spin]

\* the lines the completion function wrote
DoneLines == SelectSeq(sink, LAMBDA l : l.spin /\ l.by \in Reporters)
\* the lines Spinner and the completion function wrote
SpinnerLines == SelectSeq(sink, LAMBDA l : l.spin /\ l.by # "frame")

(***************************************************************************)
(* The sink is bounded: an operation starts only when there is room for    *)
(* the lines it writes and for the line a guarded completion function that *)
(* has not written yet still owes.                                         *)
(***************************************************************************)
Owed == IF fn = "guarded" /\ Len(DoneLines) = 0 THEN 1 ELSE 0
Room(n) == Len(sink) + Owed + n <= MaxLines

(***************************************************************************)
(* pkg/print: the operations.                                              *)
(***************************************************************************)
\* a switch that flips the flag instead of setting it
EnableJSONFormatToggle ==
    /\ logAsJSON' = ~logAsJSON
    /\ enableCalled' = TRUE
    /\ UNCHANGED <<windows, sink, fn, msg, s, once, pc, call, winner, stops>>

EnableJSONFormat ==
    /\ logAsJSON' = TRUE
    /\ enableCalled' = TRUE
    /\ UNCHANGED <<windows, sink, fn, msg, s, once, pc, call, winner, stops>>

IsJSONLogEnabled == logAsJSON

\* one call of one of the five reporters, outside the spinner
StatusEvent(f, m, t) ==
    /\ Room(1)
    /\ sink' = Append(sink, Written(Report(f, m, t), f, FALSE))
    /\ UNCHANGED <<windows, logAsJSON, fn, msg, s, once, pc, call,
                   enableCalled, winner, stops>>

\* a Spinner whose JSON branch writes no pending line
SpinnerSilent(m, t) ==
    /\ fn = "none"
    /\ msg' = m
    /\ IF logAsJSON
       THEN /\ Room(2)
            /\ fn' = "guarded"
            /\ UNCHANGED <<s, sink>>
       ELSE IF windows
       THEN /\ Room(1)
            /\ sink' = Append(sink, Written(Plain(m), "Spinner", TRUE))
            /\ fn' = "dummy"
            /\ UNCHANGED s
       ELSE /\ Room(1)
            /\ s' = "active"
            /\ fn' = "guarded"
            /\ UNCHANGED sink
    /\ UNCHANGED <<windows, logAsJSON, once, pc, call, enableCalled, winner, stops>>

\* a Spinner whose limited-console branch falls through to the guarded function
SpinnerNoDummy(m, t) ==
    /\ fn = "none"
    /\ msg' = m
    /\ IF logAsJSON
       THEN /\ Room(2)
            /\ sink' = Append(sink, Written(logJSON("pending", m, t), "Spinner", TRUE))
            /\ fn' = "guarded"
            /\ UNCHANGED s
       ELSE IF windows
       THEN /\ Room(2)
            /\ sink' = Append(sink, Written(Plain(m), "Spinner", TRUE))
            /\ fn' = "guarded"
            /\ UNCHANGED s
       ELSE /\ Room(1)
            /\ s' = "active"
            /\ fn' = "guarded"
            /\ UNCHANGED sink
    /\ UNCHANGED <<windows, logAsJSON, once, pc, call, enableCalled, winner, stops>>

Spinner(m, t) ==
    /\ fn = "none"
    /\ msg' = m
    /\ IF logAsJSON
       THEN /\ Room(2)
            /\ sink' = Append(sink, Written(logJSON("pending", m, t), "Spinner", TRUE))
            /\ fn' = "guarded"
            /\ UNCHANGED s
       ELSE IF windows
       THEN /\ Room(1)
            /\ sink' = Append(sink, Written(Plain(m), "Spinner", TRUE))
            /\ fn' = "dummy"
            /\ UNCHANGED s
       ELSE /\ Room(1)
            /\ s' = "active"
            /\ fn' = "guarded"
            /\ UNCHANGED sink
    /\ UNCHANGED <<windows, logAsJSON, once, pc, call, enableCalled, winner, stops>>

\* the goroutine s.Start() launched draws a frame: the spinner and its suffix
Frame ==
    /\ s = "active"
    /\ Room(1)
    /\ sink' = Append(sink, Written(Line("frame", 0, "", msg), "frame", TRUE))
    /\ UNCHANGED <<windows, logAsJSON, fn, msg, s, once, pc, call,
                   enableCalled, winner, stops>>

\* goroutine p calls the function Spinner returned; the dummy has no body
Call(p, r) ==
    /\ pc[p] = "idle"
    /\ fn # "none"
    /\ call' = [call EXCEPT ![p] = <<r>>]
    /\ pc' = [pc EXCEPT ![p] = IF fn = "dummy" THEN "ret" ELSE "do"]
    /\ UNCHANGED <<windows, logAsJSON, sink, fn, msg, s, once,
                   enableCalled, winner, stops>>

\* a guard that lets a call return while another call is still inside once
OnceDoNoWait(p) ==
    /\ pc[p] = "do"
    /\ pc' = [pc EXCEPT ![p] = IF once.done \/ once.m # 0 THEN "ret" ELSE "lock"]
    /\ UNCHANGED <<windows, logAsJSON, sink, fn, msg, s, once, call,
                   enableCalled, winner, stops>>

\* once.Do: the fast path, o.done.Load() == 0
OnceDo(p) ==
    /\ pc[p] = "do"
    /\ pc' = [pc EXCEPT ![p] = IF once.done THEN "ret" ELSE "lock"]
    /\ UNCHANGED <<windows, logAsJSON, sink, fn, msg, s, once, call,
                   enableCalled, winner, stops>>

\* a doSlow that does not look at done again under the mutex
OnceLockNoRecheck(p) ==
    /\ pc[p] = "lock"
    /\ once.m = 0
    /\ pc' = [pc EXCEPT ![p] = "f"]
    /\ once' = [once EXCEPT !.m = p]
    /\ winner' = IF winner = <<>> THEN call[p] ELSE winner
    /\ UNCHANGED <<windows, logAsJSON, sink, fn, msg, s, call, enableCalled, stops>>

\* once.doSlow: o.m.Lock(), then o.done.Load() == 0 decides whether f runs
OnceLock(p) ==
    /\ pc[p] = "lock"
    /\ once.m = 0
    /\ IF once.done
       THEN /\ pc' = [pc EXCEPT ![p] = "ret"]
            /\ UNCHANGED <<once, winner>>
       ELSE /\ pc' = [pc EXCEPT ![p] = "f"]
            /\ once' = [once EXCEPT !.m = p]
            /\ winner' = IF winner = <<>> THEN call[p] ELSE winner
    /\ UNCHANGED <<windows, logAsJSON, sink, fn, msg, s, call, enableCalled, stops>>

\* the function once runs: if s != nil { s.Stop() }
Stop(p) ==
    /\ pc[p] = "f"
    /\ IF s # "nil"
       THEN /\ s' = "stopped"
            /\ stops' = stops + 1
       ELSE UNCHANGED <<s, stops>>
    /\ pc' = [pc EXCEPT ![p] = "event"]
    /\ UNCHANGED <<windows, logAsJSON, sink, fn, msg, once, call,
                   enableCalled, winner>>

\* a completion that writes in the format Spinner started in
EventAsStarted(p, t) ==
    LET f == IF call[p][1] THEN "SuccessStatusEvent" ELSE "FailureStatusEvent"
        l == IF s = "nil"
             THEN logJSON(IF call[p][1] THEN "success" ELSE "failure", msg, t)
             ELSE Line("icon", 0, IF call[p][1] THEN "check-mark" ELSE "cross-mark", msg)
    IN
    /\ pc[p] = "event"
    /\ sink' = Append(sink, Written(l, f, TRUE))
    /\ pc' = [pc EXCEPT ![p] = "defer"]
    /\ UNCHANGED <<windows, logAsJSON, fn, msg, s, once, call,
                   enableCalled, winner, stops>>

\* the function once runs: if result { SuccessStatusEvent } else { FailureStatusEvent }
Event(p, t) ==
    LET f == IF call[p][1] THEN "SuccessStatusEvent" ELSE "FailureStatusEvent" IN
    /\ pc[p] = "event"
    /\ sink' = Append(sink, Written(Report(f, msg, t), f, TRUE))
    /\ pc' = [pc EXCEPT ![p] = "defer"]
    /\ UNCHANGED <<windows, logAsJSON, fn, msg, s, once, call,
                   enableCalled, winner, stops>>

\* a doSlow that stores done and forgets to unlock
OnceDeferNoUnlock(p) ==
    /\ pc[p] = "defer"
    /\ once' = [once EXCEPT !.done = TRUE]
    /\ pc' = [pc EXCEPT ![p] = "ret"]
    /\ UNCHANGED <<windows, logAsJSON, sink, fn, msg, s, call,
                   enableCalled, winner, stops>>

\* doSlow's defers: o.done.Store(1), then o.m.Unlock()
OnceDefer(p) ==
    /\ pc[p] = "defer"
    /\ once' = [done |-> TRUE, m |-> 0]
    /\ pc' = [pc EXCEPT ![p] = "ret"]
    /\ UNCHANGED <<windows, logAsJSON, sink, fn, msg, s, call,
                   enableCalled, winner, stops>>

\* the completion function returns to its caller
Return(p) ==
    /\ pc[p] = "ret"
    /\ pc' = [pc EXCEPT ![p] = "idle"]
    /\ call' = [call EXCEPT ![p] = <<>>]
    /\ UNCHANGED <<windows, logAsJSON, sink, fn, msg, s, once,
                   enableCalled, winner, stops>>

PrintInit ==
    /\ windows \in BOOLEAN
    /\ logAsJSON = FALSE
    /\ sink = <<>>
    /\ fn = "none"
    /\ msg = ""
    /\ s = "nil"
    /\ once = [done |-> FALSE, m |-> 0]
    /\ pc = [p \in Procs |-> "idle"]
    /\ call = [p \in Procs |-> <<>>]
    /\ enableCalled = FALSE
    /\ winner = <<>>
    /\ stops = 0

\* one step of goroutine p inside the completion function
Step(p) ==
    \/ OnceDo(p)
    \/ OnceLock(p)
    \/ Stop(p)
    \/ \E t \in Clock : Event(p, t)
    \/ OnceDefer(p)
    \/ Return(p)

(***************************************************************************)
(* pkg/standalone: strings.                                                *)
(***************************************************************************)
\* a Go string of the source as a sequence of pieces
Str(x) == IF x = "" THEN <<>> ELSE <<x>>

\* bufio's dropCR: a line without its trailing carriage return
dropCR(data) ==
    IF Len(data) > 0 /\ data[Len(data)] = "\r"
    THEN SubSeq(data, 1, Len(data) - 1)
    ELSE data

\* the tokens of bufio.NewScanner(strings.NewReader(string(out))), split by
\* bufio.ScanLines, in the order scanner.Scan() yields them; Scan stops at a
\* token that does not fit the scanner's buffer
RECURSIVE ScanLines(_)
ScanLines(data) ==
    IF data = <<>> THEN <<>>
    ELSE IF \E i \in 1..Len(data) : data[i] = "\n"
    THEN LET i == CHOOSE j \in 1..Len(data) :
                      /\ data[j] = "\n"
                      /\ \A h \in 1..(j - 1) : data[h] # "\n"
         IN  IF i > MaxScanTokenSize
             THEN <<>>
             ELSE <<dropCR(SubSeq(data, 1, i - 1))>>
                  \o ScanLines(SubSeq(data, i + 1, Len(data)))
    ELSE IF Len(data) >= MaxScanTokenSize
    THEN <<>>
    ELSE <<dropCR(data)>>

\* strings.Join(strs, sep)
RECURSIVE Join(_, _)
Join(strs, sep) ==
    IF strs = <<>> THEN <<>>
    ELSE IF Len(strs) = 1 THEN strs[1]
    ELSE strs[1] \o sep \o Join(Tail(strs), sep)

(***************************************************************************)
(* pkg/standalone: the operations.  exec.Command(...).Output() blocks      *)
(* until the binary has exited; the function is at "exec" while it does.   *)
(***************************************************************************)
Cmd(bin, flag) == [bin |-> bin, flag |-> flag]

GetRuntimeVersion ==
    /\ vpc = "idle"
    /\ vfn' = "GetRuntimeVersion"
    /\ cmds' = <<Cmd("daprd", "--version")>>
    /\ vpc' = "exec"
    /\ hung' \in BOOLEAN
    /\ UNCHANGED <<gitcommit, gitversion, results, version, vret>>

\* a probe that returns whatever was captured, whether or not the binary failed
GetRuntimeVersionIgnoringErr(r) ==
    /\ vpc = "exec" /\ vfn = "GetRuntimeVersion" /\ ~hung
    /\ results' = <<r>>
    /\ vret' = r.out
    /\ vpc' = "ret"
    /\ UNCHANGED <<gitcommit, gitversion, vfn, cmds, version, hung>>

\* Output returned r: if err != nil { return "n/a\n" }; return string(out)
GetRuntimeVersionOutput(r) ==
    /\ vpc = "exec" /\ vfn = "GetRuntimeVersion" /\ ~hung
    /\ results' = <<r>>
    /\ vret' = IF r.err THEN <<"n/a\n">> ELSE r.out
    /\ vpc' = "ret"
    /\ UNCHANGED <<gitcommit, gitversion, vfn, cmds, version, hung>>

GetDashboardVersion ==
    /\ vpc = "idle"
    /\ vfn' = "GetDashboardVersion"
    /\ cmds' = <<Cmd("dashboard", "--version")>>
    /\ vpc' = "exec"
    /\ hung' \in BOOLEAN
    /\ UNCHANGED <<gitcommit, gitversion, results, version, vret>>

\* Output returned r: if err != nil { return "n/a\n" }; return string(out)
GetDashboardVersionOutput(r) ==
    /\ vpc = "exec" /\ vfn = "GetDashboardVersion" /\ ~hung
    /\ results' = <<r>>
    /\ vret' = IF r.err THEN <<"n/a\n">> ELSE r.out
    /\ vpc' = "ret"
    /\ UNCHANGED <<gitcommit, gitversion, vfn, cmds, version, hung>>

\* the string GetBuildInfo returns once out and err are final
BuildInfo(v, out, err) ==
    LET strs == << <<"CLI:">>,
                   <<"\tVersion: ">> \o Str(v),
                   <<"\tGit Commit: ">> \o Str(gitcommit),
                   <<"\tGit Version: ">> \o Str(gitversion),
                   <<"Runtime:">> >>
        lines == ScanLines(out)
        runtime == IF err
                   THEN << <<"\tN/A">> >>
                   ELSE [i \in 1..Len(lines) |-> <<"\t">> \o lines[i]]
    IN  Join(strs \o runtime, <<"\n">>)

GetBuildInfo(v) ==
    /\ vpc = "idle"
    /\ vfn' = "GetBuildInfo"
    /\ version' = v
    /\ cmds' = <<Cmd("daprd", "--build-info")>>
    /\ vpc' = "exec"
    /\ hung' \in BOOLEAN
    /\ UNCHANGED <<gitcommit, gitversion, results, vret>>

\* a GetBuildInfo without the fallback to --version
GetBuildInfoNoRetry(r) ==
    /\ vpc = "exec" /\ vfn = "GetBuildInfo" /\ ~hung
    /\ Len(cmds) = 1
    /\ results' = <<r>>
    /\ vret' = BuildInfo(version, r.out, r.err)
    /\ vpc' = "ret"
    /\ UNCHANGED <<cmds, hung>>
    /\ UNCHANGED <<gitcommit, gitversion, vfn, version>>

\* Output of --build-info returned r: on err the function runs --version
GetBuildInfoOutput(r) ==
    /\ vpc = "exec" /\ vfn = "GetBuildInfo" /\ ~hung
    /\ Len(cmds) = 1
    /\ results' = <<r>>
    /\ IF r.err
       THEN /\ cmds' = Append(cmds, Cmd("daprd", "--version"))
            /\ hung' \in BOOLEAN
            /\ UNCHANGED <<vpc, vret>>
       ELSE /\ vret' = BuildInfo(version, r.out, r.err)
            /\ vpc' = "ret"
            /\ UNCHANGED <<cmds, hung>>
    /\ UNCHANGED <<gitcommit, gitversion, vfn, version>>

\* Output of --version returned r
GetBuildInfoRetryOutput(r) ==
    /\ vpc = "exec" /\ vfn = "GetBuildInfo" /\ ~hung
    /\ Len(cmds) = 2
    /\ results' = Append(results, r)
    /\ vret' = BuildInfo(version, r.out, r.err)
    /\ vpc' = "ret"
    /\ UNCHANGED <<gitcommit, gitversion, vfn, cmds, version, hung>>

\* the function hands vret to its caller
VersionReturn ==
    /\ vpc = "ret"
    /\ vpc' = "idle"
    /\ vfn' = ""
    /\ cmds' = <<>>
    /\ results' = <<>>
    /\ version' = ""
    /\ vret' = <<>>
    /\ UNCHANGED <<gitcommit, gitversion, hung>>

VersionIdle ==
    /\ vfn = ""
    /\ vpc = "idle"
    /\ cmds = <<>>
    /\ results = <<>>
    /\ version = ""
    /\ hung = FALSE
    /\ vret = <<>>

VersionInit ==
    /\ gitcommit \in {"", "abc123"}
    /\ gitversion \in {"", "v1.0.0-rc"}
    /\ VersionIdle

(***************************************************************************)
(* The specifications.                                                     *)
(***************************************************************************)
Init ==
    /\ part \in {"reporters", "spinner", "standalone"}
    /\ PrintInit
    /\ VersionInit
    /\ part # "standalone" => gitcommit = "" /\ gitversion = ""
    /\ part = "standalone" => ~windows

\* an operation as a step of the part it belongs to
InPrint(A) == part \in {"reporters", "spinner"} /\ A /\ UNCHANGED <<part, versionVars>>
InReporters(A) == part = "reporters" /\ A /\ UNCHANGED <<part, versionVars>>
InSpinner(A) == part = "spinner" /\ A /\ UNCHANGED <<part, versionVars>>
InStandalone(A) == part = "standalone" /\ A /\ UNCHANGED <<part, printVars>>

Next ==
    \/ InPrint(EnableJSONFormat)
    \/ \E f \in Reporters, m \in Msgs, t \in Clock : InReporters(StatusEvent(f, m, t))
    \/ \E t \in Clock : InSpinner(StatusEvent("InfoStatusEvent", "m1", t))
    \/ \E m \in Msgs, t \in Clock : InSpinner(Spinner(m, t))
    \/ InSpinner(Frame)
    \/ \E p \in Procs, r \in BOOLEAN : InSpinner(Call(p, r))
    \/ \E p \in Procs : InSpinner(OnceDo(p))
    \/ \E p \in Procs : InSpinner(OnceLock(p))
    \/ \E p \in Procs : InSpinner(Stop(p))
    \/ \E p \in Procs, t \in Clock : InSpinner(Event(p, t))
    \/ \E p \in Procs : InSpinner(OnceDefer(p))
    \/ \E p \in Procs : InSpinner(Return(p))
    \/ InStandalone(GetRuntimeVersion)
    \/ \E r \in Outcomes : InStandalone(GetRuntimeVersionOutput(r))
    \/ InStandalone(GetDashboardVersion)
    \/ \E r \in Outcomes : InStandalone(GetDashboardVersionOutput(r))
    \/ \E v \in Versions : InStandalone(GetBuildInfo(v))
    \/ \E r \in Outcomes : InStandalone(GetBuildInfoOutput(r))
    \/ \E r \in Outcomes : InStandalone(GetBuildInfoRetryOutput(r))
    \/ InStandalone(VersionReturn)

Spec == Init /\ [][Next]_vars

(***************************************************************************)
(* Progress is checked on LiveSpec.  What a line or a binary's output      *)
(* holds does not bear on progress, so LiveNext takes one message, no line *)
(* of other code, and the outcomes of a binary that writes nothing.        *)
(***************************************************************************)
LiveOutcomes == [out : {<<>>}, err : BOOLEAN]

LiveNext ==
    \/ InPrint(EnableJSONFormat)
    \/ \E f \in Reporters, t \in Clock : InReporters(StatusEvent(f, "m1", t))
    \/ \E t \in Clock : InSpinner(Spinner("m1", t))
    \/ InSpinner(Frame)
    \/ \E p \in Procs, r \in BOOLEAN : InSpinner(Call(p, r))
    \/ \E p \in Procs : InSpinner(OnceDo(p))
    \/ \E p \in Procs : InSpinner(OnceLock(p))
    \/ \E p \in Procs : InSpinner(Stop(p))
    \/ \E p \in Procs, t \in Clock : InSpinner(Event(p, t))
    \/ \E p \in Procs : InSpinner(OnceDefer(p))
    \/ \E p \in Procs : InSpinner(Return(p))
    \/ InStandalone(GetRuntimeVersion)
    \/ \E r \in LiveOutcomes : InStandalone(GetRuntimeVersionOutput(r))
    \/ InStandalone(GetDashboardVersion)
    \/ \E r \in LiveOutcomes : InStandalone(GetDashboardVersionOutput(r))
    \/ \E v \in Versions : InStandalone(GetBuildInfo(v))
    \/ \E r \in LiveOutcomes : InStandalone(GetBuildInfoOutput(r))
    \/ \E r \in LiveOutcomes : InStandalone(GetBuildInfoRetryOutput(r))
    \/ InStandalone(VersionReturn)

\* the step of a function of pkg/standalone that is in progress, in LiveNext
LiveVersionStep ==
    \/ \E r \in LiveOutcomes : GetRuntimeVersionOutput(r)
    \/ \E r \in LiveOutcomes : GetDashboardVersionOutput(r)
    \/ \E r \in LiveOutcomes : GetBuildInfoOutput(r)
    \/ \E r \in LiveOutcomes : GetBuildInfoRetryOutput(r)
    \/ VersionReturn

\* the scheduler runs every goroutine that can take a step, and a companion
\* binary that does not hang exits
LiveSpec ==
    /\ Init
    /\ [][LiveNext]_vars
    /\ \A p \in Procs : WF_vars(InSpinner(Step(p)))
    /\ WF_vars(InStandalone(LiveVersionStep))

(***************************************************************************)
(* What the claims speak of.                                               *)
(***************************************************************************)
\* the function Spinner returned is the guarded one and no animation was started
StartedJSON == fn = "guarded" /\ s = "nil"
\* Spinner started the animation
Animated == s # "nil"

\* the outcome a line shows to its reader
LineOutcome(l) ==
    CASE l.fmt = "json" -> l.tag
      [] l.fmt = "icon" /\ l.tag = "check-mark" -> "success"
      [] l.fmt = "icon" /\ l.tag = "cross-mark" -> "failure"
      [] OTHER -> "none"

ResultName(r) == IF r THEN "success" ELSE "failure"

\* the status and the icon the specification gives each reporter
SpecStatus(f) ==
    CASE f = "SuccessStatusEvent" -> "success"
      [] f = "FailureStatusEvent" -> "failure"
      [] f = "WarningStatusEvent" -> "warning"
      [] f = "PendingStatusEvent" -> "pending"
      [] f = "InfoStatusEvent"    -> "info"

SpecIcon(f) ==
    CASE f = "SuccessStatusEvent" -> "check-mark"
      [] f = "FailureStatusEvent" -> "cross-mark"
      [] f = "WarningStatusEvent" -> "warning-sign"
      [] f = "PendingStatusEvent" -> "hourglass"
      [] f = "InfoStatusEvent"    -> "information-sign"

NoFrames == \A i \in 1..Len(sink) : sink[i].by # "frame"

(***************************************************************************)
(* C1.  As stated: for the function any call of Spinner returned, the      *)
(* calls together write exactly one status line, the one of the call that  *)
(* took the guard first.                                                   *)
(***************************************************************************)
\* C1 as stated: never more than one line, and once a call has returned
\* there is exactly one, showing the result of the call that took the guard
C1_OneLineForAnySpinner ==
    /\ Len(DoneLines) <= 1
    /\ \A p \in Procs : pc[p] = "ret" =>
         /\ Len(DoneLines) = 1
         /\ winner # <<>>
         /\ LineOutcome(DoneLines[1]) = ResultName(winner[1])

\* C1 as amended: the guarded function writes exactly one status line, the
\* one of the call that took the guard first, and every other call writes
\* nothing; the function returned on the limited console with JSON off has
\* no guard and writes no line at all
C1_OneLineWhenGuarded ==
    /\ Len(DoneLines) <= 1
    /\ \A p \in Procs : pc[p] = "ret" =>
         IF fn = "dummy"
         THEN Len(DoneLines) = 0 /\ winner = <<>>
         ELSE /\ Len(DoneLines) = 1
              /\ winner # <<>>
              /\ LineOutcome(DoneLines[1]) = ResultName(winner[1])
              /\ DoneLines[1].msg = msg

\* two calls with different results have both returned from the guarded function
C1_Witness ==
    /\ fn = "guarded"
    /\ \E p, q \in Procs :
         /\ pc[p] = "ret" /\ pc[q] = "ret"
         /\ call[p] = <<TRUE>> /\ call[q] = <<FALSE>>
    /\ Len(DoneLines) = 1

(***************************************************************************)
(* C2.  The flag starts false, and from the first call of EnableJSONFormat *)
(* on IsJSONLogEnabled returns true whatever is called afterwards.         *)
(***************************************************************************)
\* C2: IsJSONLogEnabled returns true exactly when EnableJSONFormat has been called
C2_Sticky ==
    /\ enableCalled => IsJSONLogEnabled
    /\ ~enableCalled => ~IsJSONLogEnabled

\* JSON was enabled before the spinner was started and completed by two calls
C2_Witness ==
    /\ enableCalled
    /\ StartedJSON
    /\ once.done
    /\ Len(sink) = MaxLines
    /\ \A p \in Procs : pc[p] = "ret"

(***************************************************************************)
(* C3.  GetBuildInfo runs --build-info, then --version if and only if that *)
(* failed, and nothing more; the Runtime section is the line N/A if and    *)
(* only if both failed, else the lines of the output that succeeded, each  *)
(* after a tab, in order.                                                  *)
(***************************************************************************)
\* the j-th smallest element of a set of numbers
Nth(S, j) == CHOOSE x \in S : Cardinality({y \in S : y < x}) = j - 1

\* where the lines of o end: at each newline, and at the end of an output
\* that does not end in a newline
LineEnds(o) ==
    {i \in 1..Len(o) : o[i] = "\n"}
        \cup (IF o # <<>> /\ o[Len(o)] # "\n" THEN {Len(o) + 1} ELSE {})

\* the lines of the text o, without their end-of-line marker (a newline,
\* with the carriage return before it)
TextLines(o) ==
    [j \in 1..Cardinality(LineEnds(o)) |->
        LET e == Nth(LineEnds(o), j)
            b == IF j = 1 THEN 1 ELSE Nth(LineEnds(o), j - 1) + 1
        IN  IF e - 1 >= b /\ o[e - 1] = "\r"
            THEN SubSeq(o, b, e - 2)
            ELSE SubSeq(o, b, e - 1)]

\* the lines of a returned string: its pieces between the newline pieces
RECURSIVE SplitNL(_)
SplitNL(str) ==
    IF \E i \in 1..Len(str) : str[i] = "\n"
    THEN LET i == CHOOSE j \in 1..Len(str) :
                      str[j] = "\n" /\ \A h \in 1..(j - 1) : str[h] # "\n"
         IN  <<SubSeq(str, 1, i - 1)>> \o SplitNL(SubSeq(str, i + 1, Len(str)))
    ELSE <<str>>

\* the lines that follow the line "Runtime:" in the string GetBuildInfo returned
RuntimeSection(str) ==
    LET ls == SplitNL(str)
        at == CHOOSE i \in 1..Len(ls) : ls[i] = <<"Runtime:">>
    IN  SubSeq(ls, at + 1, Len(ls))

C4_VersionOrNA ==
    vfn \in {"GetRuntimeVersion", "GetDashboardVersion"} =>
        /\ cmds = <<[bin |-> IF vfn = "GetRuntimeVersion" THEN "daprd" ELSE "dashboard",
                     flag |-> "--version"]>>
        /\ vpc = "ret" =>
             /\ Len(results) = 1
             /\ results[1].err => vret = <<"n/a\n">>
             /\ ~results[1].err => vret = results[1].out

\* the runtime binary wrote to its output and then failed
C4_Witness ==
    /\ vfn = "GetRuntimeVersion" /\ vpc = "ret"
    /\ results[1].err /\ results[1].out # <<>>
    /\ vret = <<"n/a\n">>

C7_DummyDoesNothing ==
    /\ [](fn = "dummy" =>
            /\ SpinnerLines = <<Written(Plain(msg), "Spinner", TRUE)>>
            /\ NoFrames
            /\ s = "nil" /\ stops = 0
            /\ once = [done |-> FALSE, m |-> 0]
            /\ winner = <<>>
            /\ \A p \in Procs : pc[p] \in {"idle", "ret"})
    /\ [][(fn = "none" /\ fn' # "none" /\ windows /\ ~logAsJSON) =>
            /\ fn' = "dummy"
            /\ sink' = Append(sink, Written(Plain(msg'), "Spinner", TRUE))]_vars
    /\ [][(fn = "dummy" /\ pc' # pc) =>
            UNCHANGED <<windows, logAsJSON, sink, fn, msg, s, once,
                        enableCalled, winner, stops>>]_vars

\* the dummy was called after JSON had been enabled, by every goroutine
C7_Witness ==
    /\ fn = "dummy"
    /\ logAsJSON
    /\ \A p \in Procs : pc[p] = "ret"

(***************************************************************************)
(* C9.  An animation is stopped once, by the call that took the guard,     *)
(* before the status line; no call returns before the stop and the line.   *)
(***************************************************************************)
C9_StopThenLineThenReturn ==
    Animated =>
        /\ stops <= 1
        /\ (s = "stopped") <=> (stops = 1)
        /\ stops = 1 => winner # <<>>
        /\ (Len(DoneLines) > 0 \/ \E p \in Procs : pc[p] \in {"event", "defer"})
               => s = "stopped"
        /\ \A i, j \in 1..Len(sink) :
               (i < j /\ sink[i].spin /\ sink[i].by \in Reporters) => sink[j].by # "frame"
        /\ \A p \in Procs : pc[p] = "ret" => s = "stopped" /\ Len(DoneLines) = 1

\* a frame was drawn, the line was written, the winner and a loser have returned
C9_Witness ==
    /\ Animated
    /\ \E i \in 1..Len(sink) : sink[i].by = "frame"
    /\ Len(DoneLines) = 1
    /\ \A p \in Procs : pc[p] = "ret"

(***************************************************************************)
(* C10.  The completion line has the format of the flag as it is when the  *)
(* line is written, not as it was when Spinner was called.                 *)
(***************************************************************************)
C10_FormatAtCompletion ==
    /\ []((Animated /\ Len(DoneLines) > 0) =>
            /\ s = "stopped"
            /\ \A i \in 1..Len(sink) : sink[i].by # "Spinner")
    /\ [](StartedJSON =>
            \A i \in 1..Len(DoneLines) : DoneLines[i].fmt = "json")
    /\ [][Len(DoneLines') > Len(DoneLines) =>
            sink'[Len(sink')].fmt =
                IF logAsJSON THEN "json" ELSE IF windows THEN "plain" ELSE "icon"]_vars

\* an animated spinner completed with a JSON line
C10_Witness ==
    /\ Animated
    /\ s = "stopped"
    /\ Len(DoneLines) = 1
    /\ DoneLines[1].fmt = "json"

(***************************************************************************)
(* C8.  Under LiveSpec every call of the completion function returns, the  *)
(* losers of the guard included, and every version probe returns unless    *)
(* its binary hangs, in which case it never does.                          *)
(***************************************************************************)
C8_EveryCallReturns ==
    /\ \A p \in Procs : (pc[p] # "idle") ~> (pc[p] = "idle")
    /\ (vpc # "idle") ~> (vpc = "idle" \/ (vpc = "exec" /\ hung))
    /\ [][(vpc = "exec" /\ hung) => (vpc' = "exec" /\ hung')]_vars

\* a call waits for the mutex of once while the winner is writing its line
C8_Witness ==
    \E p, q \in Procs :
        /\ pc[p] = "lock"
        /\ once.m = q
        /\ pc[q] = "event"

====
